---- MODULE Spec2Model ----
(***************************************************************************)
(* Model of the download-and-progress-tracking subsystem of                *)
(* volumes/webshare/app.py: the shared dict active_downloads, the request  *)
(* handlers download() and download_progress(), the background thread      *)
(* download_file_background() and the cleanup thread it starts.            *)
(*                                                                         *)
(* Threads interleave between accesses to active_downloads: every action   *)
(* of a thread is the code from one access to the shared dict up to (not   *)
(* including) the next one.  A Python dict is a function whose DOMAIN is   *)
(* its set of keys, so a missing key is a key outside the DOMAIN and       *)
(* reading it raises KeyError.                                             *)
(*                                                                         *)
(* Left out: the 'startTime' field (time.time(), diagnostics only) and the *)
(* logger calls, which touch no state.                                     *)
(***************************************************************************)
EXTENDS Integers, Sequences, FiniteSets, TLC

\* ---------------------------------------------------------------- bounds
MaxChunks == 2       \* chunks one response stream delivers
TicksPerGrace == 1   \* resolution of time: clock ticks in one grace period

\* ------------------------------------------------------ program constants
GracePeriod == 30    \* time.sleep(30) in cleanup(), seconds
ProgressConnecting == 5
ProgressStreamOpen == 10
ProgressBandTop == 90
ProgressBandWidth == 80
ProgressDone == 100

\* ------------------------------------------------------------ input sets
FileIds == {"abc", "xyz"}
\* the JSON bodies of the download requests: one without fileId, and for
\* every file the body the page sends for it ("" is an absent fileName)
Requests ==
    { [fileId |-> "", fileName |-> "movie.mkv", contentType |-> "movie"],
      [fileId |-> "abc", fileName |-> "movie.mkv", contentType |-> "movie"],
      [fileId |-> "xyz", fileName |-> "", contentType |-> "series"] }
MOVIES_PATH == "/downloads/movies"
SERIES_PATH == "/downloads/series"
RemoteFileName == "remote.mkv"            \* download_info['fileName']
ExpectedSizes == {0, 1000}                \* download_info.get('fileSize', 0)
ChunkSizes == {500}                       \* len(chunk) of the non-empty chunks
NoHeader == [present |-> FALSE, digits |-> <<>>]
ContentLengthHeaders ==
    { NoHeader,
      [present |-> TRUE, digits |-> <<5, 0, 0>>],
      [present |-> TRUE, digits |-> <<1, 0, 0, 0>>] }
Handlers == {"h1"}                        \* request threads of the web server
PlexTokens == {"", "token"}               \* os.environ.get('PLEX_TOKEN', '')
TaskOrder == <<"t1", "t2">>               \* download threads, in start order
Tasks == {TaskOrder[i] : i \in 1..Len(TaskOrder)}

VARIABLES
    active_downloads,   \* the dict: file_id -> entry (a dict itself)
    task,               \* task[t]: the locals and position of download thread t
    cleanup,            \* cleanup[t]: the cleanup thread started by task t
    handler,            \* handler[h]: position and locals of request thread h
    age,                \* age[f]: ticks since f's entry was set 'completed'
    PLEX_TOKEN          \* read once at start

vars == <<active_downloads, task, cleanup, handler, age, PLEX_TOKEN>>

\* ------------------------------------------------------------ dict helpers
Min(a, b) == IF a < b THEN a ELSE b

\* d[k] = v
Put(d, k, v) == [x \in (DOMAIN d) \cup {k} |-> IF x = k THEN v ELSE d[x]]

\* del d[k]
Del(d, k) == [x \in (DOMAIN d) \ {k} |-> d[x]]

EmptyDict == [x \in {} |-> x]

\* int(s) for a string of decimal digits
RECURSIVE ParseInt(_)
ParseInt(digits) ==
    IF digits = <<>> THEN 0
    ELSE 10 * ParseInt(SubSeq(digits, 1, Len(digits) - 1)) + digits[Len(digits)]

\* str(KeyError(k))
KeyErrorText(k) == "'" \o k \o "'"

\* ------------------------------------------------------------ the entries
StartingEntry(file_name) ==
    [status |-> "downloading", fileName |-> file_name, progress |-> 0,
     message |-> <<"Starting download...">>]

\* the error dict without the text of the exception in its message
ErrorEntryBareMessage(file_name, e) ==
    [status |-> "error", fileName |-> file_name, progress |-> 0,
     message |-> <<"Download failed">>, error |-> e]

ErrorEntry(file_name, e) ==
    [status |-> "error", fileName |-> file_name, progress |-> 0,
     message |-> <<"Download failed: ", e>>, error |-> e]

\* the band value without the cap of min(90, ...)
BandProgressUncapped(downloaded_size, total_size) ==
    ProgressStreamOpen + ((downloaded_size * ProgressBandWidth) \div total_size)

BandProgress(downloaded_size, total_size) ==
    Min(ProgressBandTop,
        ProgressStreamOpen + ((downloaded_size * ProgressBandWidth) \div total_size))

DownloadPath(content_type) ==
    IF content_type = "series" THEN SERIES_PATH ELSE MOVIES_PATH

JoinPath(download_path, file_name) == <<download_path, file_name>>

\* ------------------------------------------------------------------- Init
IdleTask ==
    [pc |-> "unborn", file_id |-> "", file_name |-> "", download_path |-> "",
     expected_size |-> 0, total_size |-> 0, downloaded_size |-> 0,
     progress |-> 0, chunks |-> 0,
     fetched |-> FALSE, opened |-> FALSE, notified |-> 0, notify |-> "none",
     failure |-> ""]

IdleHandler ==
    [pc |-> "idle", file_id |-> "", file_name |-> "", content_type |-> ""]

NoCleanup == [pc |-> "none", rem |-> 0]

Init ==
    /\ active_downloads = EmptyDict
    /\ task = [t \in Tasks |-> IdleTask]
    /\ cleanup = [t \in Tasks |-> NoCleanup]
    /\ handler = [h \in Handlers |-> IdleHandler]
    /\ age = [f \in FileIds |-> 0]
    /\ PLEX_TOKEN \in PlexTokens

\* age is kept only while the entry is 'completed'; every step but Tick
\* restarts it when the status becomes 'completed' and drops it otherwise
AgeAfter(ad) ==
    [f \in FileIds |->
        IF f \in DOMAIN ad /\ ad[f].status = "completed"
                /\ f \in DOMAIN active_downloads
                /\ active_downloads[f].status = "completed"
        THEN age[f] ELSE 0]

\* ------------------------------------------- download_file_background(t)
DeadLocals(r) ==
    [r EXCEPT !.pc = "done", !.file_name = "", !.download_path = "",
              !.expected_size = 0, !.total_size = 0, !.downloaded_size = 0,
              !.progress = 0, !.chunks = 0, !.notify = "none"]

\* no except branch: the exception ends the thread and the entry stays
RaiseUncaught(t, r, e) ==
    /\ UNCHANGED active_downloads
    /\ task' = [task EXCEPT ![t] = [DeadLocals(r) EXCEPT !.failure = e]]

\* the except branch assigning a new dict that holds the error entry alone
RaiseReplacingDict(t, r, e) ==
    /\ active_downloads' = Put(EmptyDict, r.file_id, ErrorEntry(r.file_name, e))
    /\ task' = [task EXCEPT ![t] = [DeadLocals(r) EXCEPT !.failure = e]]

\* except Exception as e: the entry is replaced by a new error dict
Raise(t, r, e) ==
    /\ active_downloads' =
          Put(active_downloads, r.file_id, ErrorEntry(r.file_name, e))
    /\ task' = [task EXCEPT ![t] = [DeadLocals(r) EXCEPT !.failure = e]]

\* active_downloads[file_id][k] = v, KeyError when the entry is gone
Store(t, k, v, next) ==
    LET r == task[t] IN
    IF r.file_id \in DOMAIN active_downloads
    THEN /\ active_downloads' =
              [active_downloads EXCEPT ![r.file_id] = Put(@, k, v)]
         /\ task' = [task EXCEPT ![t].pc = next]
    ELSE Raise(t, r, KeyErrorText(r.file_id))

TaskFrame ==
    /\ age' = AgeAfter(active_downloads')
    /\ UNCHANGED <<handler, PLEX_TOKEN>>

Start(t) ==
    /\ task[t].pc = "l108"
    /\ active_downloads' =
          Put(active_downloads, task[t].file_id, StartingEntry(task[t].file_name))
    /\ task' = [task EXCEPT ![t].pc = "l117"]
    /\ UNCHANGED cleanup
    /\ TaskFrame

InitiateDownload(t) ==
    /\ task[t].pc = "l117"
    /\ \/ \E size \in ExpectedSizes :
            /\ task' = [task EXCEPT
                  ![t].pc = "l125",
                  ![t].expected_size = size,
                  ![t].file_name = IF @ = "" THEN RemoteFileName ELSE @]
            /\ UNCHANGED active_downloads
       \/ Raise(t, task[t], "initiate_download failed")
    /\ UNCHANGED cleanup
    /\ TaskFrame

MakeDirs(t) ==
    /\ task[t].pc = "l125"
    /\ \/ /\ task' = [task EXCEPT ![t].pc = "l131"]
          /\ UNCHANGED active_downloads
       \/ Raise(t, task[t], "makedirs failed")
    /\ UNCHANGED cleanup
    /\ TaskFrame

SetMessageConnecting(t) ==
    /\ task[t].pc = "l131"
    /\ Store(t, "message", <<"Connecting to server...">>, "l132")
    /\ UNCHANGED cleanup
    /\ TaskFrame

\* line 132 storing the value of line 144
SetProgressConnectingAsOpen(t) ==
    /\ task[t].pc = "l132"
    /\ Store(t, "progress", ProgressStreamOpen, "l137")
    /\ UNCHANGED cleanup
    /\ TaskFrame

SetProgressConnecting(t) ==
    /\ task[t].pc = "l132"
    /\ Store(t, "progress", ProgressConnecting, "l137")
    /\ UNCHANGED cleanup
    /\ TaskFrame

StreamGet(t) ==
    /\ task[t].pc = "l137"
    /\ \/ \E h \in ContentLengthHeaders :
            /\ task' = [task EXCEPT
                  ![t].pc = "l143",
                  ![t].fetched = TRUE,
                  ![t].total_size = IF h.present THEN ParseInt(h.digits)
                                    ELSE task[t].expected_size,
                  ![t].expected_size = 0,
                  ![t].downloaded_size = 0]
            /\ UNCHANGED active_downloads
       \/ Raise(t, [task[t] EXCEPT !.fetched = TRUE], "stream request failed")
    /\ UNCHANGED cleanup
    /\ TaskFrame

SetMessageDownloading0(t) ==
    /\ task[t].pc = "l143"
    /\ Store(t, "message", <<"Downloading... ", ToString(0), "%">>, "l144")
    /\ UNCHANGED cleanup
    /\ TaskFrame

SetProgressStreamOpen(t) ==
    /\ task[t].pc = "l144"
    /\ Store(t, "progress", ProgressStreamOpen, "l145")
    /\ UNCHANGED cleanup
    /\ TaskFrame

SetTotalSize(t) ==
    /\ task[t].pc = "l145"
    /\ Store(t, "totalSize", task[t].total_size, "l147")
    /\ UNCHANGED cleanup
    /\ TaskFrame

OpenFile(t) ==
    /\ task[t].pc = "l147"
    /\ \/ /\ task' = [task EXCEPT ![t].pc = "l148", ![t].opened = TRUE]
          /\ UNCHANGED active_downloads
       \/ Raise(t, task[t], "open failed")
    /\ UNCHANGED cleanup
    /\ TaskFrame

\* one turn of: for chunk in response.iter_content(...), up to the next
\* store: of the loop body after a chunk, of line 168 after the end of the
\* stream (the file is closed and os.chmod is tried; its failure is logged
\* and swallowed).  An empty chunk is skipped by 'if chunk:' and changes
\* nothing.
NextChunk(t) ==
    /\ task[t].pc = "l148"
    /\ \/ /\ \E chmod_ok \in BOOLEAN :
               task' = [task EXCEPT ![t].pc = "l168",
                                    ![t].total_size = 0, ![t].progress = 0,
                                    ![t].chunks = 0]
          /\ UNCHANGED active_downloads
       \/ /\ task[t].chunks < MaxChunks
          /\ \E n \in ChunkSizes :
               LET size == task[t].downloaded_size + n IN
               /\ task' = [task EXCEPT
                     ![t].chunks = @ + 1,
                     ![t].downloaded_size = size,
                     ![t].progress =
                         IF task[t].total_size > 0
                         THEN BandProgress(size, task[t].total_size) ELSE @,
                     ![t].pc =
                         IF task[t].total_size > 0 THEN "l156" ELSE "l148"]
               /\ UNCHANGED active_downloads
       \/ Raise(t, task[t], "stream read or file write failed")
    /\ UNCHANGED cleanup
    /\ TaskFrame

SetProgressBand(t) ==
    /\ task[t].pc = "l156"
    /\ Store(t, "progress", task[t].progress, "l157")
    /\ UNCHANGED cleanup
    /\ TaskFrame

SetMessageBand(t) ==
    /\ task[t].pc = "l157"
    /\ Store(t, "message",
             <<"Downloading... ",
               ToString(task[t].progress - ProgressStreamOpen), "%">>, "l158")
    /\ UNCHANGED cleanup
    /\ TaskFrame

SetDownloadedSize(t) ==
    /\ task[t].pc = "l158"
    /\ Store(t, "downloadedSize", task[t].downloaded_size, "l148")
    /\ UNCHANGED cleanup
    /\ TaskFrame

SetStatusCompleted(t) ==
    /\ task[t].pc = "l168"
    /\ Store(t, "status", "completed", "l169")
    /\ UNCHANGED cleanup
    /\ TaskFrame

SetProgressDone(t) ==
    /\ task[t].pc = "l169"
    /\ Store(t, "progress", ProgressDone, "l170")
    /\ UNCHANGED cleanup
    /\ TaskFrame

SetMessageCompleted(t) ==
    /\ task[t].pc = "l170"
    /\ Store(t, "message", <<"Download completed!">>, "l171")
    /\ UNCHANGED cleanup
    /\ TaskFrame

SetFilePath(t) ==
    /\ task[t].pc = "l171"
    /\ Store(t, "filePath",
             JoinPath(task[t].download_path, task[t].file_name), "l172")
    /\ UNCHANGED cleanup
    /\ TaskFrame

SetFinalSize(t) ==
    /\ task[t].pc = "l172"
    /\ Store(t, "finalSize", task[t].downloaded_size, "l177")
    /\ UNCHANGED cleanup
    /\ TaskFrame

\* the Plex refresh: requests.put inside its own try/except
NotifyOutcomes == {"200", "non200", "exception"}

NotifyResult(out) == IF out = "200" THEN "ok" ELSE "failed"

\* the refresh without its own try/except: the exception reaches the
\* handler of the whole download
NotifyUnguarded(t) ==
    /\ task[t].pc = "l177"
    /\ IF PLEX_TOKEN # ""
       THEN \E out \in NotifyOutcomes :
               IF out = "exception"
               THEN Raise(t, [task[t] EXCEPT !.notified = @ + 1],
                          "plex refresh failed")
               ELSE /\ task' = [task EXCEPT ![t].pc = "l196",
                                            ![t].notify = NotifyResult(out),
                                            ![t].notified = @ + 1]
                    /\ UNCHANGED active_downloads
       ELSE /\ task' = [task EXCEPT ![t].pc = "l196", ![t].notify = "skipped"]
            /\ UNCHANGED active_downloads
    /\ UNCHANGED cleanup
    /\ TaskFrame

\* the refresh without the test of PLEX_TOKEN
NotifyWithoutToken(t) ==
    /\ task[t].pc = "l177"
    /\ \E out \in NotifyOutcomes :
          task' = [task EXCEPT ![t].pc = "l196",
                               ![t].notify = NotifyResult(out),
                               ![t].notified = @ + 1]
    /\ UNCHANGED <<active_downloads, cleanup>>
    /\ TaskFrame

Notify(t) ==
    /\ task[t].pc = "l177"
    /\ IF PLEX_TOKEN # ""
       THEN \E out \in NotifyOutcomes :
               task' = [task EXCEPT ![t].pc = "l196",
                                    ![t].notify = NotifyResult(out),
                                    ![t].notified = @ + 1]
       ELSE task' = [task EXCEPT ![t].pc = "l196", ![t].notify = "skipped"]
    /\ UNCHANGED <<active_downloads, cleanup>>
    /\ TaskFrame

\* threading.Thread(target=cleanup, daemon=True).start()
ScheduleCleanup(t) ==
    /\ task[t].pc = "l196"
    /\ \/ /\ task' = [task EXCEPT ![t] = DeadLocals(@)]
          /\ cleanup' = [cleanup EXCEPT ![t] = [pc |-> "sleep", rem |-> TicksPerGrace]]
          /\ UNCHANGED active_downloads
       \/ /\ Raise(t, task[t], "can't start new thread")
          /\ UNCHANGED cleanup
    /\ TaskFrame

\* ------------------------------------------------------------- cleanup()
\* one clock tick (GracePeriod / TicksPerGrace seconds) passes for every
\* sleeping thread
Tick ==
    /\ \E t \in Tasks : cleanup[t].pc = "sleep" /\ cleanup[t].rem > 0
    /\ cleanup' = [t \in Tasks |->
          IF cleanup[t].pc = "sleep" /\ cleanup[t].rem > 0
          THEN [cleanup[t] EXCEPT !.rem = @ - 1] ELSE cleanup[t]]
    /\ age' = [f \in FileIds |->
          IF f \in DOMAIN active_downloads
                /\ active_downloads[f].status = "completed"
          THEN Min(TicksPerGrace, age[f] + 1) ELSE 0]
    /\ UNCHANGED <<active_downloads, task, handler, PLEX_TOKEN>>

\* time.sleep(30) has returned: if file_id in active_downloads
CleanupCheck(t) ==
    /\ cleanup[t].pc = "sleep"
    /\ cleanup[t].rem = 0
    /\ cleanup' = [cleanup EXCEPT ![t].pc =
          IF task[t].file_id \in DOMAIN active_downloads THEN "l194" ELSE "done"]
    /\ UNCHANGED <<active_downloads, task, handler, age, PLEX_TOKEN>>

\* del active_downloads[file_id]; a KeyError ends the thread
CleanupDel(t) ==
    /\ cleanup[t].pc = "l194"
    /\ active_downloads' =
          IF task[t].file_id \in DOMAIN active_downloads
          THEN Del(active_downloads, task[t].file_id) ELSE active_downloads
    /\ cleanup' = [cleanup EXCEPT ![t].pc = "done"]
    /\ age' = AgeAfter(active_downloads')
    /\ UNCHANGED <<task, handler, PLEX_TOKEN>>

\* ------------------------------------------------- download(), the route
Spawned == {t \in Tasks : task[t].pc # "unborn"}

\* handlers that passed the check of line 229 and will start a thread
Spawning == {h \in Handlers : handler[h].pc = "l238"}

HandlerFrame == UNCHANGED <<active_downloads, task, cleanup, age, PLEX_TOKEN>>

Response(code, body) == [code |-> code, body |-> body]

\* the responses of download(): lines 218, 230-235 (KeyError when the entry
\* is gone, answered by line 253) and 245-249
BadRequest == Response(400, [success |-> FALSE, error |-> "File ID is required"])

AlreadyInProgress(file_id, file_name) ==
    IF file_id \in DOMAIN active_downloads
    THEN Response(200,
            [success |-> TRUE,
             message |-> <<"Download already in progress: ", file_name>>,
             status |-> active_downloads[file_id].status,
             progress |-> active_downloads[file_id].progress])
    ELSE Response(500, [success |-> FALSE, error |-> KeyErrorText(file_id)])

Started(file_id, file_name) ==
    Response(200,
        [success |-> TRUE,
         message |-> <<"Download started: ", file_name>>,
         fileId |-> file_id])

\* request.get_json() up to: if file_id in active_downloads.  A request
\* without fileId is answered 400 at once and changes nothing.
DownloadCheck(h) ==
    /\ handler[h].pc = "idle"
    /\ \E data \in Requests :
          /\ \/ data.fileId = ""
             \/ data.fileId \in DOMAIN active_downloads
             \/ Cardinality(Spawned) + Cardinality(Spawning) < Cardinality(Tasks)
          /\ handler' =
                IF data.fileId = "" THEN handler
                ELSE [handler EXCEPT ![h] =
                        [pc |-> IF data.fileId \in DOMAIN active_downloads
                                THEN "l233" ELSE "l238",
                         file_id |-> data.fileId, file_name |-> data.fileName,
                         content_type |-> data.contentType]]
    /\ HandlerFrame

\* the response the route returns from its position
DownloadResponse(h) ==
    LET r == handler[h] IN
    CASE r.pc = "l233" -> AlreadyInProgress(r.file_id, r.file_name)
      [] r.pc = "l238" -> Started(r.file_id, r.file_name)
      [] OTHER -> Response(0, EmptyDict)

\* return jsonify(...) of lines 230-235: the reads of the entry
DownloadReturn(h) ==
    /\ handler[h].pc = "l233"
    /\ handler' = [handler EXCEPT ![h] = IdleHandler]
    /\ HandlerFrame

NextTask == TaskOrder[Cardinality(Spawned) + 1]

NewTask(file_id, file_name, download_path) ==
    [IdleTask EXCEPT !.pc = "l108", !.file_id = file_id,
                     !.file_name = file_name, !.download_path = download_path]

\* threading.Thread(target=download_file_background, ...).start() and
\* return jsonify(...)
DownloadSpawn(h) ==
    /\ handler[h].pc = "l238"
    /\ task' = [task EXCEPT ![NextTask] =
          NewTask(handler[h].file_id, handler[h].file_name,
                  DownloadPath(handler[h].content_type))]
    /\ handler' = [handler EXCEPT ![h] = IdleHandler]
    /\ UNCHANGED <<active_downloads, cleanup, age, PLEX_TOKEN>>

\* ---------------------------------------- download_progress(), the route
\* the responses of download_progress(): lines 260-263 (KeyError when the
\* entry is gone, answered by line 272) and 265-268
Snapshot(file_id) ==
    IF file_id \in DOMAIN active_downloads
    THEN Response(200, [success |-> TRUE,
                        download |-> active_downloads[file_id]])
    ELSE Response(500, [success |-> FALSE, error |-> KeyErrorText(file_id)])

NotFound ==
    Response(404, [success |-> FALSE,
                   error |-> "Download not found or completed"])

\* if file_id in active_downloads.  A poll that finds no entry is answered
\* 404 at once and changes nothing.
PollCheck(h) ==
    /\ handler[h].pc = "idle"
    /\ \E file_id \in FileIds :
          handler' =
             IF file_id \in DOMAIN active_downloads
             THEN [handler EXCEPT ![h] =
                     [IdleHandler EXCEPT !.pc = "l262", !.file_id = file_id]]
             ELSE handler
    /\ HandlerFrame

\* the response the route returns from its position
PollResponse(h) ==
    IF handler[h].pc = "l262" THEN Snapshot(handler[h].file_id)
    ELSE Response(0, EmptyDict)

\* the response to a poll for file_id that starts now and is not interrupted
PollNow(file_id) ==
    IF file_id \in DOMAIN active_downloads THEN Snapshot(file_id) ELSE NotFound

\* return jsonify(...) of lines 260-263: the read of the entry
PollReturn(h) ==
    /\ handler[h].pc = "l262"
    /\ handler' = [handler EXCEPT ![h] = IdleHandler]
    /\ HandlerFrame

\* ------------------------------------------------------------------ Next
TaskStep(t) ==
    \/ Start(t)
    \/ InitiateDownload(t)
    \/ MakeDirs(t)
    \/ SetMessageConnecting(t)
    \/ SetProgressConnecting(t)
    \/ StreamGet(t)
    \/ SetMessageDownloading0(t)
    \/ SetProgressStreamOpen(t)
    \/ SetTotalSize(t)
    \/ OpenFile(t)
    \/ NextChunk(t)
    \/ SetProgressBand(t)
    \/ SetMessageBand(t)
    \/ SetDownloadedSize(t)
    \/ SetStatusCompleted(t)
    \/ SetProgressDone(t)
    \/ SetMessageCompleted(t)
    \/ SetFilePath(t)
    \/ SetFinalSize(t)
    \/ Notify(t)
    \/ ScheduleCleanup(t)

Next ==
    \/ \E h \in Handlers : DownloadCheck(h)
    \/ \E h \in Handlers : DownloadSpawn(h)
    \/ \E h \in Handlers : DownloadReturn(h)
    \/ \E h \in Handlers : PollCheck(h)
    \/ \E h \in Handlers : PollReturn(h)
    \/ \E t \in Tasks : TaskStep(t)
    \/ Tick
    \/ \E t \in Tasks : CleanupCheck(t)
    \/ \E t \in Tasks : CleanupDel(t)

Spec == Init /\ [][Next]_vars

\* the program without the polls: download_progress() only reads the dict
\* and writes nothing but the position of its own request thread, so every
\* behaviour of Spec is a behaviour of WriterSpec with poll steps put in,
\* which change neither the dict nor a download or cleanup thread
WriterNext ==
    \/ \E h \in Handlers : DownloadCheck(h)
    \/ \E h \in Handlers : DownloadSpawn(h)
    \/ \E h \in Handlers : DownloadReturn(h)
    \/ \E t \in Tasks : TaskStep(t)
    \/ Tick
    \/ \E t \in Tasks : CleanupCheck(t)
    \/ \E t \in Tasks : CleanupDel(t)

WriterSpec == Init /\ [][WriterNext]_vars

\* the program with a PLEX_TOKEN configured, under requests for one fileId
\* and no polls, with threads that are scheduled: a download thread that can
\* take a step takes one
LiveFileId == "abc"

LiveInit == Init /\ PLEX_TOKEN # ""

LiveNext ==
    \/ \E h \in Handlers :
          DownloadCheck(h) /\ handler'[h].file_id \in {"", LiveFileId}
    \/ \E h \in Handlers : DownloadSpawn(h)
    \/ \E h \in Handlers : DownloadReturn(h)
    \/ \E t \in Tasks : TaskStep(t)
    \/ Tick
    \/ \E t \in Tasks : CleanupCheck(t)
    \/ \E t \in Tasks : CleanupDel(t)

FairSpec ==
    LiveInit /\ [][LiveNext]_vars /\ WF_vars(\E t \in Tasks : TaskStep(t))

\* ================================================================ claims
Running(f) ==
    {t \in Tasks : task[t].file_id = f /\ task[t].pc \notin {"unborn", "done"}}

StatusOf(ad, f) == IF f \in DOMAIN ad THEN ad[f].status ELSE "absent"

Terminal == {"completed", "error"}

\* C1: for every fileId at most one download thread exists at a time: a
\* begin-download request made while a download of the fileId is under way
\* starts no second thread.
C1_AtMostOneTask ==
    \A f \in FileIds : Cardinality(Running(f)) <= 1

\* C2: a begin-download request that finds an entry for its fileId (the test
\* of line 229 succeeds) is answered 200 with the status and progress of
\* that entry.
C2_DuplicateAnswered ==
    \A h \in Handlers :
        handler[h].pc = "l233" =>
            /\ DownloadResponse(h).code = 200
            /\ DownloadResponse(h).body.status
                  = active_downloads[handler[h].file_id].status
            /\ DownloadResponse(h).body.progress
                  = active_downloads[handler[h].file_id].progress

\* C3: once the entry of a fileId is 'completed' or 'error', no step changes
\* its status to another value; the entry can only be removed.
C3_TerminalStays ==
    [][\A f \in FileIds :
          (StatusOf(active_downloads, f) \in Terminal /\ f \in DOMAIN active_downloads')
              => active_downloads'[f].status = active_downloads[f].status]_vars

\* C4: no step stores a progress value lower than the one the entry holds,
\* the step to 'error' included.
C4_ProgressMonotonic ==
    [][\A f \in FileIds :
          (f \in DOMAIN active_downloads /\ f \in DOMAIN active_downloads')
              => active_downloads'[f].progress >= active_downloads[f].progress]_vars

\* C5: every entry a poll returns with status 'completed' has progress 100
\* and a filePath.
C5_CompletedIsWhole ==
    \A h \in Handlers :
        (handler[h].pc = "l262" /\ PollResponse(h).code = 200) =>
            LET d == PollResponse(h).body.download IN
            d.status = "completed" =>
                d.progress = ProgressDone /\ "filePath" \in DOMAIN d

\* C6: the step that makes an entry 'error' sets its error text and leaves
\* its progress at the value the entry held before the failure.
C6_FailedKeepsProgress ==
    [][\A f \in FileIds :
          (f \in DOMAIN active_downloads
             /\ active_downloads[f].status # "error"
             /\ StatusOf(active_downloads', f) = "error")
              => /\ "error" \in DOMAIN active_downloads'[f]
                 /\ active_downloads'[f].progress = active_downloads[f].progress]_vars

\* C7: a 'completed' entry stays in the dict as 'completed' during the whole
\* grace period: it stops being 'completed' only by being removed, and not
\* before the grace period has passed since it became 'completed'.
C7_CompletedKeptForGrace ==
    [][\A f \in FileIds :
          (StatusOf(active_downloads, f) = "completed"
             /\ StatusOf(active_downloads', f) # "completed")
              => f \notin DOMAIN active_downloads' /\ age[f] >= TicksPerGrace]_vars

\* C8: no step removes an entry whose status is 'error'.
C8_FailedNeverRemoved ==
    [][\A f \in FileIds :
          StatusOf(active_downloads, f) = "error"
              => f \in DOMAIN active_downloads']_vars

\* C9: when initiate_download raises, the same step leaves the entry of the
\* fileId 'error' with progress 0 and a message that contains the error
\* text, and the thread ends having made no stream request and opened no
\* file.
InitiateError == "initiate_download failed"

FailsInInitiate(t) == task[t].pc = "l117" /\ task'[t].pc = "done"

C9_InitiateFailure ==
    /\ [][\A t \in Tasks :
            FailsInInitiate(t) =>
               LET f == task[t].file_id IN
               /\ f \in DOMAIN active_downloads'
               /\ active_downloads'[f].status = "error"
               /\ active_downloads'[f].progress = 0
               /\ active_downloads'[f].error = InitiateError
               /\ \E i \in DOMAIN active_downloads'[f].message :
                     active_downloads'[f].message[i] = InitiateError
               /\ task'[t].failure = InitiateError]_vars
    /\ [](\A t \in Tasks :
            task[t].failure = InitiateError =>
               task[t].pc = "done" /\ ~task[t].fetched /\ ~task[t].opened)

C9_Witness ==
    \E t \in Tasks :
        /\ task[t].failure = InitiateError
        /\ task[t].pc = "done"
        /\ StatusOf(active_downloads, task[t].file_id) = "error"
        /\ active_downloads[task[t].file_id].error = InitiateError

\* C10: a refresh that answers non-200 or raises changes no entry and puts
\* no error in the thread, which goes on to the start of the cleanup
\* thread; when that start succeeds the cleanup is scheduled with the full
\* grace period.
C10_NotifyFailureHarmless ==
    /\ [][\A t \in Tasks :
            (task[t].pc = "l177" /\ task'[t].pc # "l177") =>
               /\ active_downloads' = active_downloads
               /\ task'[t].pc = "l196"
               /\ task'[t].failure = ""]_vars
    /\ [][\A t \in Tasks :
            (task[t].pc = "l196" /\ task[t].notify = "failed"
               /\ task'[t].pc = "done" /\ task'[t].failure = "")
              => cleanup'[t] = [pc |-> "sleep", rem |-> TicksPerGrace]]_vars

C10_Witness ==
    \E t \in Tasks :
        /\ task[t].pc = "l196"
        /\ task[t].notify = "failed"
        /\ StatusOf(active_downloads, task[t].file_id) = "completed"
        /\ active_downloads[task[t].file_id].progress = ProgressDone
        /\ "error" \notin DOMAIN active_downloads[task[t].file_id]

\* ---------------------------------------------------- claims C11 to C20
\* t is the only download thread there has been for its file_id
Sole(t) == \A u \in Tasks \ {t} : task[u].file_id # task[t].file_id

\* C11: while the total size is unknown (0), after every chunk received the
\* entry still holds the progress stored before streaming began (10) and its
\* downloadedSize is the number of bytes received so far.
C11_UnknownTotalSize ==
    \A t \in Tasks :
        (task[t].pc = "l148" /\ task[t].total_size = 0 /\ task[t].chunks > 0
           /\ Sole(t))
          => /\ task[t].file_id \in DOMAIN active_downloads
             /\ active_downloads[task[t].file_id].progress = ProgressStreamOpen
             /\ "downloadedSize" \in DOMAIN active_downloads[task[t].file_id]
             /\ active_downloads[task[t].file_id].downloadedSize
                   = task[t].downloaded_size

\* C12: from the acknowledgment of an accepted begin-download request until
\* the eviction of the entry, the dict holds an entry for the fileId, so a
\* poll is not answered 404.
Accepted(f) == \E t \in Tasks : task[t].file_id = f

Evicted(f) == \E t \in Tasks : task[t].file_id = f /\ cleanup[t].pc = "done"

C12_AcceptedIsRegistered ==
    \A f \in FileIds :
        (Accepted(f) /\ ~Evicted(f))
          => f \in DOMAIN active_downloads /\ PollNow(f) # NotFound

\* C13: the progress stores of a download thread happen in the order 5, 10,
\* the band value after each chunk (50 at half of the declared length, 90
\* when the bytes received equal it), 100, each on top of the value before
\* it when the thread is the only one of its fileId; the last store leaves
\* finalSize equal to the bytes received and, for an only thread, the entry
\* 'completed' with progress 100.
C13_ProgressSequence ==
    [][\A t \in Tasks :
          LET f == task[t].file_id
              from == task[t].pc
              to == task'[t].pc
          IN
          /\ (from = "l132" /\ to = "l137")
               => /\ active_downloads'[f].progress = 5
                  /\ Sole(t) => active_downloads[f].progress = 0
          /\ (from = "l144" /\ to = "l145")
               => /\ active_downloads'[f].progress = 10
                  /\ Sole(t) => active_downloads[f].progress = 5
          /\ (from = "l156" /\ to = "l157")
               => /\ task[t].downloaded_size = task[t].total_size
                        => active_downloads'[f].progress = 90
                  /\ 2 * task[t].downloaded_size = task[t].total_size
                        => active_downloads'[f].progress = 50
                  /\ Sole(t)
                        => /\ active_downloads[f].progress >= 10
                           /\ active_downloads'[f].progress
                                 >= active_downloads[f].progress
          /\ (from = "l169" /\ to = "l170")
               => /\ active_downloads'[f].progress = 100
                  /\ (Sole(t) /\ active_downloads[f].totalSize > 0
                        /\ active_downloads[f].totalSize = task[t].downloaded_size)
                        => active_downloads[f].progress = 90
          /\ (from = "l172" /\ to = "l177")
               => /\ active_downloads'[f].finalSize = task[t].downloaded_size
                  /\ Sole(t)
                        => /\ active_downloads'[f].status = "completed"
                           /\ active_downloads'[f].progress = 100]_vars

\* 1000 bytes declared and received in two chunks of 500
C13_Witness ==
    \E t \in Tasks :
        /\ task[t].pc = "l177"
        /\ Sole(t)
        /\ task[t].downloaded_size = 1000
        /\ active_downloads[task[t].file_id].totalSize = 1000
        /\ active_downloads[task[t].file_id].downloadedSize = 1000
        /\ active_downloads[task[t].file_id].finalSize = 1000
        /\ active_downloads[task[t].file_id].progress = 100
        /\ active_downloads[task[t].file_id].status = "completed"

\* C14: the progress stored after a chunk with a known total size is
\* min(90, 10 + floor(downloaded * 80 / total)), a value of 10..90 also when
\* more bytes than the total arrive; the entry of an only thread holds a
\* value of 10..90 during the whole streaming, and every entry of every
\* reachable state holds an integer of 0..100.
Streaming == {"l148", "l156", "l157", "l158"}

C14_ProgressInRange ==
    /\ [][\A t \in Tasks :
            (task[t].pc = "l156" /\ task'[t].pc = "l157")
              => LET d == task[t].downloaded_size
                     n == task[t].total_size
                     p == active_downloads'[task[t].file_id].progress
                 IN
                 /\ n > 0
                 /\ p = IF 10 + ((d * 80) \div n) < 90
                        THEN 10 + ((d * 80) \div n) ELSE 90
                 /\ p \in 10..90]_vars
    /\ [](\A f \in DOMAIN active_downloads :
            active_downloads[f].progress \in 0..100)
    /\ [](\A t \in Tasks :
            (task[t].pc \in Streaming /\ Sole(t))
              => /\ task[t].file_id \in DOMAIN active_downloads
                 /\ active_downloads[task[t].file_id].progress \in 10..90)

\* more bytes received than declared
C14_Witness ==
    \E t \in Tasks :
        /\ task[t].pc = "l157"
        /\ task[t].total_size > 0
        /\ task[t].downloaded_size > task[t].total_size
        /\ task[t].file_id \in DOMAIN active_downloads
        /\ active_downloads[task[t].file_id].progress = 90

\* C15: the cleanup thread removes the entry of its fileId only when that
\* entry is 'completed' or 'error'; an entry that is 'downloading' when the
\* sleep has ended stays in the dict unchanged.
C15_EvictsOnlyTerminal ==
    [][\A t \in Tasks :
          (cleanup[t].pc # "done" /\ cleanup'[t].pc = "done"
             /\ StatusOf(active_downloads, task[t].file_id) = "downloading")
            => /\ task[t].file_id \in DOMAIN active_downloads'
               /\ active_downloads'[task[t].file_id]
                     = active_downloads[task[t].file_id]]_vars

\* C16: a store of a download thread into the entry of a fileId that is no
\* longer in the dict changes nothing: no entry is created and the thread
\* does not fail.
StorePcs ==
    {"l131", "l132", "l143", "l144", "l145", "l156", "l157", "l158",
     "l168", "l169", "l170", "l171", "l172"}

C16_UpdateOfMissingIsNoOp ==
    [][\A t \in Tasks :
          (task[t].pc \in StorePcs /\ task'[t] # task[t]
             /\ task[t].file_id \notin DOMAIN active_downloads)
            => /\ active_downloads' = active_downloads
               /\ task'[t].failure = ""]_vars

\* C17: every download thread that was started ends (infinitely often it
\* is not running, and it never runs again once it has ended); the step in
\* which a call of the thread raises leaves the entry of its fileId 'error'
\* with the text of the exception; a thread ends without error only from
\* line 196, after its store of 'completed'; and no entry is 'downloading'
\* unless a thread of its fileId is still running past line 108.
C17_EveryTaskEnds ==
    /\ \A t \in Tasks : []<>(task[t].pc \in {"unborn", "done"})
    /\ [][\A t \in Tasks :
            /\ task[t].pc = "done" => task'[t].pc = "done"
            /\ task'[t].failure # task[t].failure
                 => /\ task'[t].pc = "done"
                    /\ StatusOf(active_downloads', task[t].file_id) = "error"
                    /\ active_downloads'[task[t].file_id].error = task'[t].failure
            /\ (task[t].pc # "done" /\ task'[t].pc = "done"
                  /\ task'[t].failure = "")
                 => task[t].pc = "l196"
            /\ (task[t].pc = "l168" /\ task'[t].pc # "l168")
                 => StatusOf(active_downloads', task[t].file_id) \in Terminal]_vars
    /\ [](\A f \in FileIds :
            StatusOf(active_downloads, f) = "downloading"
              => \E t \in Running(f) : task[t].pc # "l108")

\* one thread has ended by an exception in the middle of the stream, the
\* other one without error
C17_Witness ==
    \E t \in Tasks, u \in Tasks :
        /\ task[t].pc = "done"
        /\ task[t].failure = "stream read or file write failed"
        /\ task[u].pc = "done"
        /\ task[u].failure = ""
        /\ StatusOf(active_downloads, task[t].file_id) = "error"

\* C18: a download thread attempts the Plex refresh at most once, only with
\* a PLEX_TOKEN configured and only from line 177, after its stores of
\* 'completed' (the entry of an only thread is 'completed' then); a thread
\* that failed before line 177 has attempted none; a cleanup thread exists
\* only for a thread that has ended without error after its refresh attempt.
StartFailure == "can't start new thread"

C18_NotifyOnceAfterCompleted ==
    \A t \in Tasks :
        /\ task[t].notified \in {0, 1}
        /\ task[t].notified = 1
             => PLEX_TOKEN # "" /\ task[t].pc \in {"l196", "done"}
        /\ (task[t].pc \in {"l177", "l196"} /\ Sole(t))
             => StatusOf(active_downloads, task[t].file_id) = "completed"
        /\ (task[t].pc = "done" /\ task[t].failure \notin {"", StartFailure})
             => task[t].notified = 0 /\ cleanup[t].pc = "none"
        /\ cleanup[t].pc # "none"
             => /\ task[t].pc = "done"
                /\ task[t].failure = ""
                /\ PLEX_TOKEN # "" => task[t].notified = 1

C18_Witness ==
    \E t \in Tasks :
        /\ PLEX_TOKEN # ""
        /\ task[t].pc = "done"
        /\ task[t].notified = 1
        /\ cleanup[t].pc = "sleep"
        /\ StatusOf(active_downloads, task[t].file_id) = "completed"

\* C19: a step that creates, changes or removes the entry of a fileId is a
\* step of a download thread of that fileId or of the cleanup thread it
\* started, and a step of a download thread changes no entry of another
\* fileId.
SameEntry(f) ==
    /\ (f \in DOMAIN active_downloads) = (f \in DOMAIN active_downloads')
    /\ f \in DOMAIN active_downloads => active_downloads'[f] = active_downloads[f]

C19_OnlyOwnEntry ==
    [][/\ \A f \in FileIds :
            ~SameEntry(f)
              => \E t \in Tasks :
                    /\ task[t].file_id = f
                    /\ task'[t] # task[t] \/ cleanup'[t] # cleanup[t]
       /\ \A t \in Tasks :
            (task'[t] # task[t] \/ cleanup'[t] # cleanup[t])
              => \A f \in FileIds \ {task[t].file_id} : SameEntry(f)]_vars

\* the thread of one file has failed while the entry of the other file is
\* 'completed'
C19_Witness ==
    \E t \in Tasks, u \in Tasks :
        /\ task[t].file_id = "abc"
        /\ task[u].file_id = "xyz"
        /\ task[t].failure # ""
        /\ StatusOf(active_downloads, "abc") = "error"
        /\ StatusOf(active_downloads, "xyz") = "completed"
        /\ active_downloads["xyz"].progress = ProgressDone

\* C20: once the entry of a fileId is 'error' it stays 'error' in every
\* later state (no step removes or replaces it), and every begin-download
\* request for the fileId is answered 200 "already in progress" with status
\* 'error' and starts no thread.
C20_FailedIsFinal ==
    [][\A f \in FileIds :
          StatusOf(active_downloads, f) = "error"
            => /\ StatusOf(active_downloads', f) = "error"
               /\ \A h \in Handlers :
                     (handler[h].file_id = f /\ handler[h].pc = "l233")
                       => /\ DownloadResponse(h).code = 200
                          /\ DownloadResponse(h).body.status = "error"
               /\ \A h \in Handlers :
                     (handler[h].pc = "idle" /\ handler'[h].file_id = f)
                       => handler'[h].pc # "l238"]_vars

====
